---- MODULE Spec2Model ----
(***************************************************************************)
(* Model of pyside6-deploy's configuration resolution:                    *)
(*   sources/pyside-tools/deploy_lib/config.py      (BaseConfig, Config)  *)
(*   sources/pyside-tools/deploy_lib/deploy_util.py (get_config,          *)
(*                                                   setup_python)        *)
(*                                                                         *)
(* A Python str is a sequence of symbols: a symbol is a file or directory  *)
(* name, a plugin name, one of the separators "/" and ",", a blank " ", or *)
(* "%", a percent sign that is not followed by "%" or "(".  A str holds no *)
(* line break.  A Path is a record [abs, parts].  The filesystem holds no  *)
(* symbolic links and no ".." components, so Path.resolve() and            *)
(* Path.absolute() coincide.                                               *)
(***************************************************************************)
EXTENDS Integers, Sequences, FiniteSets, TLC

VARIABLES
    cwd,            \* Path.cwd()
    qmlOnDisk,      \* the *.qml files on disk, in directory-traversal order
    projOnDisk,     \* the *.pyproject files on disk
    file,           \* pysidedeploy.spec on disk
    pc,             \* "start" | "constructed" | "failed"
    parser,         \* BaseConfig.parser: section -> (key -> value)
    obj,            \* the attributes of the Config object
    last,           \* the last call: operation, arguments, result
    nops,           \* number of calls made on the constructed object
    tally,          \* the resolutions made so far and their scanner invocations
    setup           \* the call of setup_python: arguments, prompt, answer, result

vars == <<cwd, qmlOnDisk, projOnDisk, file, pc, parser, obj, last, nops, tally, setup>>

---------------------------------------------------------------------------
(* Bounds *)

\* calls explored on a constructed BaseConfig
MaxOps == 2

\* consecutive runs of the tool explored
MaxRuns == 2

\* characters of the longest answer typed at the prompt of setup_python
MaxLine == 3

---------------------------------------------------------------------------
(* Python values *)

\* None, where a str is expected
None == <<"<None>">>

\* None, where a Path is expected
NonePath == [abs |-> FALSE, parts |-> <<"<None>">>]

\* bool(s) of a str or None
Truthy(s) == s # None /\ s # <<>>

\* bool(p) of a Path or None: every Path object is true
TruthyPath(p) == p # NonePath

\* sep.join(items), items a sequence of symbols
JoinSyms(items, sep) ==
    IF Len(items) = 0 THEN <<>>
    ELSE [i \in 1..(2 * Len(items) - 1) |->
             IF i % 2 = 1 THEN items[(i + 1) \div 2] ELSE sep]

\* concatenation of a sequence of strs
RECURSIVE Concat(_)
Concat(ss) ==
    IF Len(ss) = 0 THEN <<>>
    ELSE IF Len(ss) = 1 THEN ss[1]
    ELSE LET h == Len(ss) \div 2
         IN  Concat(SubSeq(ss, 1, h)) \o Concat(SubSeq(ss, h + 1, Len(ss)))

\* ",".join(strs)
JoinComma(strs) ==
    Concat([i \in 1..Len(strs) |-> IF i = 1 THEN strs[i] ELSE <<",">> \o strs[i]])

\* s.split(","): the pieces between the commas; "".split(",") is [""]
SplitComma(s) ==
    LET isComma(i) == s[i] = ","
        commas == SelectSeq([i \in 1..Len(s) |-> i], isComma)
        n      == Len(commas)
        pos(k) == IF k = 0 THEN 0
                  ELSE IF k = n + 1 THEN Len(s) + 1
                  ELSE commas[k]
    IN  [k \in 1..(n + 1) |-> SubSeq(s, pos(k - 1) + 1, pos(k) - 1)]

\* needle in s, for a needle of one symbol
Contains(s, needle) == \E i \in 1..Len(s) : s[i] = needle

---------------------------------------------------------------------------
(* pathlib.Path *)

IsSep(c) == c = "/"

NotSepOrDot(c) == c # "/" /\ c # "."

\* Path(s)
PathOf(s) ==
    [abs |-> Len(s) > 0 /\ IsSep(s[1]), parts |-> SelectSeq(s, NotSepOrDot)]

\* str(p)
PathStr(p) ==
    IF p.abs THEN <<"/">> \o JoinSyms(p.parts, "/")
    ELSE IF Len(p.parts) = 0 THEN <<".">>
    ELSE JoinSyms(p.parts, "/")

\* p.parent
Parent(p) ==
    IF Len(p.parts) = 0 THEN p
    ELSE [abs |-> p.abs, parts |-> SubSeq(p.parts, 1, Len(p.parts) - 1)]

\* p / q
JoinPath(p, q) ==
    IF q.abs THEN q ELSE [abs |-> p.abs, parts |-> p.parts \o q.parts]

\* p.absolute()
Absolute(p) == IF p.abs THEN p ELSE JoinPath(cwd, p)

\* p.resolve()
Resolve(p) == Absolute(p)

\* p lies in the directory d or below it
IsUnder(p, d) ==
    /\ p.abs = d.abs
    /\ Len(p.parts) >= Len(d.parts)
    /\ SubSeq(p.parts, 1, Len(d.parts)) = d.parts

\* p.relative_to(d) raises ValueError unless p lies in d
CanRelativeTo(p, d) == IsUnder(p, d)

\* p.relative_to(d)
RelativeTo(p, d) ==
    [abs |-> FALSE, parts |-> SubSeq(p.parts, Len(d.parts) + 1, Len(p.parts))]

---------------------------------------------------------------------------
(* configparser.ConfigParser *)

\* parser.has_section(section)
HasSection(P, section) == section \in DOMAIN P

\* parser.has_option(section, key)
HasOption(P, section, key) == HasSection(P, section) /\ key \in DOMAIN P[section]

\* a section header line of the file
HeaderLine(section) == [section |-> section, key |-> "", value |-> None]

\* parser.write(f): a header line per section and a line per option
WriteLines(P) ==
    {HeaderLine(s) : s \in DOMAIN P}
        \cup UNION {{[section |-> s, key |-> k, value |-> P[s][k]] : k \in DOMAIN P[s]}
                       : s \in DOMAIN P}

\* s.strip(): s without its leading and trailing blanks
RECURSIVE Strip(_)
Strip(s) ==
    IF Len(s) = 0 THEN s
    ELSE IF s[1] = " " THEN Strip(Tail(s))
    ELSE IF s[Len(s)] = " " THEN Strip(SubSeq(s, 1, Len(s) - 1))
    ELSE s

\* a mutation of parser.read: the values are taken as they stand in the file
ReadLinesVerbatim(f) ==
    IF ~f.exists THEN <<>>
    ELSE [s \in {l.section : l \in f.lines} |->
             [k \in {l.key : l \in {m \in f.lines : m.section = s /\ m.key # ""}} |->
                 (CHOOSE l \in f.lines : l.section = s /\ l.key = k).value]]

\* parser.read(f): a file that does not exist is skipped silently; the value
\* of an option is what follows the delimiter, stripped
ReadLines(f) ==
    IF ~f.exists THEN <<>>
    ELSE [s \in {l.section : l \in f.lines} |->
             [k \in {l.key : l \in {m \in f.lines : m.section = s /\ m.key # ""}} |->
                 Strip((CHOOSE l \in f.lines : l.section = s /\ l.key = k).value)]]

---------------------------------------------------------------------------
(* BaseConfig *)

\* BaseConfig.get_value: the value, or None when the section or key is absent
get_value(P, section, key) ==
    IF HasOption(P, section, key) THEN P[section][key] ELSE None

\* BaseConfig.set_value: parser.set unless the value is the current one;
\* parser.set raises NoSectionError for an absent section, which is caught
set_value(P, section, key, new_value) ==
    IF get_value(P, section, key) = new_value THEN P
    ELSE IF HasSection(P, section)
    THEN [P EXCEPT ![section] = (key :> new_value) @@ @]
    ELSE P

\* a mutation of set_value: NoSectionError is not caught
set_value_raises_uncaught(P, section, key, new_value) ==
    get_value(P, section, key) # new_value
        /\ (Contains(new_value, "%") \/ ~HasSection(P, section))

\* BaseConfig.set_value raises what parser.set raises other than
\* NoSectionError: BasicInterpolation.before_set rejects a "%" that starts no
\* interpolation, before the section is looked up
set_value_raises(P, section, key, new_value) ==
    get_value(P, section, key) # new_value /\ Contains(new_value, "%")

\* BaseConfig.update_config: the file is opened "w+" and written from the parser
update_config(P) == [exists |-> TRUE, lines |-> WriteLines(P)]

---------------------------------------------------------------------------
(* Exceptions *)

NoError == [type |-> "", msg |-> <<>>]

RuntimeError(msg) == [type |-> "RuntimeError", msg |-> msg]

ValueError == [type |-> "ValueError", msg |-> <<>>]

\* f"[DEPLOY] No {key} specified in config file or as cli option"
MissingMsg(key) == <<"[DEPLOY] No ", key, " specified in config file or as cli option">>

\* a bare raise outside an except block
NoActiveException == RuntimeError(<<"No active exception to reraise">>)

TooManyQmlMsg ==
    <<"You are including a lot of QML files from a local virtual env.",
      " This can lead to errors in deployment.">>

---------------------------------------------------------------------------
(* Config.set_or_fetch *)

\* the result of a set_or_fetch call: the parser afterwards, the exception
\* raised if any, and the value returned (the Path given, or the str fetched)
SofResult(P, raised, given, val, str) ==
    [parser |-> P, raised |-> raised, given |-> given, val |-> val, str |-> str]

\* a mutation of set_or_fetch: blanks the option before raising
set_or_fetch_blanking(P, val, key, group) ==
    IF TruthyPath(val)
    THEN SofResult(set_value(P, group, key, PathStr(val)), NoError, TRUE, val, None)
    ELSE IF Truthy(get_value(P, group, key))
    THEN SofResult(P, NoError, FALSE, NonePath, get_value(P, group, key))
    ELSE SofResult(set_value(P, group, key, <<>>),
                   RuntimeError(MissingMsg(key)), FALSE, NonePath, None)

\* a mutation of set_or_fetch: the configured value wins over the one given
set_or_fetch_config_first(P, val, key, group) ==
    IF Truthy(get_value(P, group, key))
    THEN SofResult(P, NoError, FALSE, NonePath, get_value(P, group, key))
    ELSE IF TruthyPath(val)
    THEN SofResult(set_value(P, group, key, PathStr(val)), NoError, TRUE, val, None)
    ELSE SofResult(P, RuntimeError(MissingMsg(key)), FALSE, NonePath, None)

\* Config.set_or_fetch(config_property_val, config_property_key, config_property_group)
set_or_fetch(P, val, key, group) ==
    IF TruthyPath(val)
    THEN SofResult(set_value(P, group, key, PathStr(val)), NoError, TRUE, val, None)
    ELSE IF Truthy(get_value(P, group, key))
    THEN SofResult(P, NoError, FALSE, NonePath, get_value(P, group, key))
    ELSE SofResult(P, RuntimeError(MissingMsg(key)), FALSE, NonePath, None)

\* Path(r) of the value set_or_fetch returned
SofPath(r) == IF r.given THEN r.val ELSE PathOf(r.str)

---------------------------------------------------------------------------
(* The world of one deployment: directories, files and interpreters *)

AbsPath(parts) == [abs |-> TRUE, parts |-> parts]

RelPath(parts) == [abs |-> FALSE, parts |-> parts]

\* the project directory and a directory outside the project
ProjDir == AbsPath(<<"p">>)

OtherDir == AbsPath(<<"o">>)

\* the source file of the application
MainPy == AbsPath(<<"p", "main.py">>)

\* pysidedeploy.spec of the project
SpecPath == AbsPath(<<"p", "pysidedeploy.spec">>)

\* sys.executable: a system interpreter, the interpreter of a virtual
\* environment nested in the project directory, and the interpreter of a
\* virtual environment whose root is the project directory itself
SysPython == AbsPath(<<"u", "bin", "python">>)

VenvPython == AbsPath(<<"p", "v", "bin", "python">>)

InTreePython == AbsPath(<<"p", "bin", "python">>)

\* deploy_lib.DEFAULT_APP_ICON
DEFAULT_APP_ICON == <<"/", "deploy_lib", "/", "pyside_icon.jpg">>

\* config.EXCLUDED_QML_PLUGINS
EXCLUDED_QML_PLUGINS ==
    {<<"QtQuick">>, <<"QtQuick3D">>, <<"QtCharts">>, <<"QtWebEngine">>, <<"QtTest">>,
     <<"QtSensors">>}

\* the module names of this world in ascending order of Python's str comparison
LexOrder ==
    << <<"QtCharts">>, <<"QtCore">>, <<"QtQuick">>, <<"QtQuick3D">>, <<"QtSensors">>,
       <<"QtTest">>, <<"QtWebEngine">> >>

\* the position of a module name in ascending order; 0 for any other str
Rank(name) ==
    IF \E i \in 1..Len(LexOrder) : LexOrder[i] = name
    THEN CHOOSE i \in 1..Len(LexOrder) : LexOrder[i] = name
    ELSE 0

\* the elements of a sequence
Range(seq) == {seq[i] : i \in 1..Len(seq)}

\* a mutation of Sorted: descending order
SortedDescending(S) ==
    LET in(n) == n \in S
        asc   == SelectSeq(LexOrder, in)
    IN  [i \in 1..Len(asc) |-> asc[Len(asc) + 1 - i]]

\* sorted(S) of a set of module names
Sorted(S) == LET in(n) == n \in S IN SelectSeq(LexOrder, in)

\* the threshold of config.py line 259
QML_FILE_LIMIT == 500

\* asset files of the application, of another directory, and of packages
\* installed in the nested virtual environment
MainQml == AbsPath(<<"p", "main.qml">>)

ViewQml == AbsPath(<<"p", "ui", "view.qml">>)

OtherQml == AbsPath(<<"o", "other.qml">>)

SitePkgQml(n) ==
    [i \in 1..n |-> AbsPath(<<"p", "v", "site-packages", ToString(i) \o ".qml">>)]

UiQml(n) == [i \in 1..n |-> AbsPath(<<"p", "ui", ToString(i) \o ".qml">>)]

\* the descriptor files
APyproject == AbsPath(<<"p", "a.pyproject">>)

BPyproject == AbsPath(<<"p", "b.pyproject">>)

SubPyproject == AbsPath(<<"p", "ui", "sub.pyproject">>)

\* self.project_data = None
NoProject ==
    [found |-> FALSE, project_file |-> NonePath, qml_files |-> <<>>,
     sub_projects_files |-> <<>>]

\* project.ProjectData(project_file): the asset files the descriptor lists and
\* the descriptors it references.  a.pyproject lists main.qml and references
\* ui/sub.pyproject, which lists ui/view.qml; b.pyproject lists nothing.
ProjectData(project_file) ==
    [found |-> TRUE, project_file |-> project_file,
     qml_files |-> IF project_file = APyproject THEN <<MainQml>>
                   ELSE IF project_file = SubPyproject THEN <<ViewQml>>
                   ELSE <<>>,
     sub_projects_files |-> IF project_file = APyproject THEN <<SubPyproject>> ELSE <<>>]

\* list(root.glob("**/*.qml")), the same as list(root.rglob("*.qml")): the
\* files below root in traversal order, each path starting with root as given
GlobQml(root) ==
    LET dir       == Absolute(root)
        below(f)  == IsUnder(f, dir)
        found     == SelectSeq(qmlOnDisk, below)
    IN  [i \in 1..Len(found) |-> JoinPath(root, RelativeTo(found[i], dir))]

\* list(project_dir.glob("*.pyproject"))
GlobPyproject(project_dir) == {f \in projOnDisk : Parent(f) = Absolute(project_dir)}

---------------------------------------------------------------------------
(* Config.__init__, statement by statement.  A context c holds the parser  *)
(* and the attributes of the object under construction; c.raised is the    *)
(* exception that ended the constructor, if any.                           *)

NewConfig(P, existing_config_file) ==
    [parser |-> P, existing_config_file |-> existing_config_file,
     source_file |-> NonePath, python_path |-> NonePath, title |-> None, icon |-> None,
     project_dir |-> NonePath, exe_dir |-> NonePath, project_data |-> NoProject,
     qml_files |-> <<>>, excluded_qml_plugins |-> <<>>, qml_modules |-> {},
     generated_files_path |-> NonePath,
     raised |-> NoError, warned |-> FALSE, globbed |-> FALSE, scanner_calls |-> 0]

\* an exception was raised: the rest of the constructor does not run, which
\* every step below says first
Raised(c) == c.raised # NoError

\* lines 70-72: self.source_file
SetSourceFile(c, source_file) ==
    LET r == set_or_fetch(c.parser, source_file, "input_file", "app")
    IN  IF r.raised # NoError
        THEN [c EXCEPT !.parser = r.parser, !.raised = r.raised]
        ELSE [c EXCEPT !.parser = r.parser, !.source_file = Resolve(SofPath(r))]

\* lines 75-81: self.python_path
SetPythonPath(c, python_exe) ==
    LET r == set_or_fetch(c.parser, python_exe, "python_path", "python")
    IN  IF Raised(c) THEN c
        ELSE IF r.raised # NoError
        THEN [c EXCEPT !.parser = r.parser, !.raised = r.raised]
        ELSE [c EXCEPT !.parser = r.parser, !.python_path = SofPath(r)]

\* line 83 and the title setter
SetTitle(c) ==
    LET title == get_value(c.parser, "app", "title")
    IN  IF Raised(c) THEN c
        ELSE [c EXCEPT !.title = title, !.parser = set_value(@, "app", "title", title)]

\* a mutation of lines 86-90: the configured icon is used as it is written,
\* without resolve()
SetIconUnresolved(c) ==
    LET config_icon == get_value(c.parser, "app", "icon")
        icon == IF Truthy(config_icon) THEN config_icon ELSE DEFAULT_APP_ICON
    IN  IF Raised(c) THEN c
        ELSE [c EXCEPT !.icon = icon, !.parser = set_value(@, "app", "icon", icon)]

\* lines 86-90 and the icon setter
SetIcon(c) ==
    LET config_icon == get_value(c.parser, "app", "icon")
        icon == IF Truthy(config_icon) THEN PathStr(Resolve(PathOf(config_icon)))
                ELSE DEFAULT_APP_ICON
    IN  IF Raised(c) THEN c
        ELSE [c EXCEPT !.icon = icon, !.parser = set_value(@, "app", "icon", icon)]

\* a mutation of _find_and_set_project_dir: the directory found is kept in
\* the object and not stored in the configuration
find_and_set_project_dir_unsaved(c) ==
    LET project_dir == Parent(c.source_file)
        P1 == set_value(c.parser, "app", "input_file",
                        PathStr(RelativeTo(c.source_file, project_dir)))
    IN  [c EXCEPT !.project_dir = project_dir, !.parser = P1]

\* a mutation of _find_and_set_project_dir: the directory is stored as an
\* absolute path also when it is the working directory
find_and_set_project_dir_absolute(c) ==
    LET project_dir == Parent(c.source_file)
        P1 == set_value(c.parser, "app", "input_file",
                        PathStr(RelativeTo(c.source_file, project_dir)))
        P2 == set_value(P1, "app", "project_dir", PathStr(project_dir))
    IN  [c EXCEPT !.project_dir = project_dir, !.parser = P2]

\* Config._find_and_set_project_dir
find_and_set_project_dir(c) ==
    LET project_dir == Parent(c.source_file)
        P1 == set_value(c.parser, "app", "input_file",
                        PathStr(RelativeTo(c.source_file, project_dir)))
        P2 == IF project_dir # cwd
              THEN set_value(P1, "app", "project_dir", PathStr(project_dir))
              ELSE set_value(P1, "app", "project_dir", PathStr(RelativeTo(project_dir, cwd)))
    IN  [c EXCEPT !.project_dir = project_dir, !.parser = P2]

\* a mutation of lines 92-96: the project directory is looked for although
\* the configuration gives it
SetProjectDirRediscovering(c) ==
    IF Raised(c) THEN c
    ELSE find_and_set_project_dir(c)

\* lines 92-96: self.project_dir
SetProjectDir(c) ==
    IF Raised(c) THEN c
    ELSE IF Truthy(get_value(c.parser, "app", "project_dir"))
    THEN [c EXCEPT !.project_dir = Absolute(PathOf(get_value(c.parser, "app", "project_dir")))]
    ELSE find_and_set_project_dir(c)

\* a mutation of _find_and_set_exe_dir: the directory is kept as passed to
\* set_or_fetch, without absolute()
find_and_set_exe_dir_relative(c) ==
    LET exe_dir == IF c.project_dir = cwd THEN RelativeTo(c.project_dir, cwd)
                   ELSE c.project_dir
        r == set_or_fetch(c.parser, exe_dir, "exec_directory", "app")
    IN  IF r.raised # NoError
        THEN [c EXCEPT !.parser = r.parser, !.raised = r.raised]
        ELSE [c EXCEPT !.parser = r.parser, !.exe_dir = SofPath(r)]

\* Config._find_and_set_exe_dir
find_and_set_exe_dir(c) ==
    LET exe_dir == IF c.project_dir = cwd THEN RelativeTo(c.project_dir, cwd)
                   ELSE c.project_dir
        r == set_or_fetch(c.parser, exe_dir, "exec_directory", "app")
    IN  IF r.raised # NoError
        THEN [c EXCEPT !.parser = r.parser, !.raised = r.raised]
        ELSE [c EXCEPT !.parser = r.parser, !.exe_dir = Absolute(SofPath(r))]

\* lines 98-102: self.exe_dir
SetExeDir(c) ==
    IF Raised(c) THEN c
    ELSE IF Truthy(get_value(c.parser, "app", "exec_directory"))
    THEN [c EXCEPT !.exe_dir = Absolute(PathOf(get_value(c.parser, "app", "exec_directory")))]
    ELSE find_and_set_exe_dir(c)

\* a mutation of _find_and_set_project_file: with several descriptors the
\* first one is used
find_and_set_project_file_first(c) ==
    LET files == GlobPyproject(c.project_dir)
    IN  IF ~TruthyPath(c.project_dir) THEN [c EXCEPT !.raised = NoActiveException]
        ELSE IF files = {} THEN c
        ELSE LET f == IF APyproject \in files THEN APyproject ELSE CHOOSE g \in files : TRUE
             IN  [c EXCEPT !.project_data = ProjectData(f),
                           !.parser = set_value(@, "app", "project_file",
                                                PathStr(RelativeTo(f, c.project_dir)))]

\* Config._find_and_set_project_file
find_and_set_project_file(c) ==
    LET files == GlobPyproject(c.project_dir)
    IN  IF ~TruthyPath(c.project_dir) THEN [c EXCEPT !.raised = NoActiveException]
        ELSE IF files = {} THEN c
        ELSE IF Cardinality(files) > 1 THEN [c EXCEPT !.raised = NoActiveException]
        ELSE LET f == CHOOSE g \in files : TRUE
             IN  [c EXCEPT !.project_data = ProjectData(f),
                           !.parser = set_value(@, "app", "project_file",
                                                PathStr(RelativeTo(f, c.project_dir)))]

\* lines 104-109: self.project_data
SetProjectData(c) ==
    IF Raised(c) THEN c
    ELSE IF Truthy(get_value(c.parser, "app", "project_file"))
    THEN LET project_file == Absolute(PathOf(get_value(c.parser, "app", "project_file")))
         IN  IF project_file \in projOnDisk
             THEN [c EXCEPT !.project_data = ProjectData(project_file)]
             ELSE [c EXCEPT !.raised = [type |-> "FileNotFoundError", msg |-> <<>>]]
    ELSE find_and_set_project_file(c)

\* lines 253-257: when the interpreter's parent-of-parent is the directory of
\* the source file, the files found below it are taken out again.  list(set)
\* keeps no order; the model keeps the order of the glob.
ExcludeVenv(qml_files_temp, python_exe, source_file) ==
    IF Parent(Parent(python_exe)) = Parent(source_file)
    THEN LET shipped == Range(GlobQml(Parent(Parent(python_exe))))
             kept(f) == f \notin shipped
         IN  SelectSeq(qml_files_temp, kept)
    ELSE qml_files_temp

\* lines 259-269: more than 500 files raise when the last one of the list has
\* "site-packages" in its path, and warn otherwise
QmlCountCheck(qml_files_temp) ==
    IF Len(qml_files_temp) > QML_FILE_LIMIT
    THEN IF Contains(PathStr(qml_files_temp[Len(qml_files_temp)]), "site-packages")
         THEN "error"
         ELSE "warning"
    ELSE "ok"

\* lines 235-273: the asset files found by the recursive glob
GlobQmlFiles(c) ==
    LET input_file  == get_value(c.parser, "app", "input_file")
        python_path == get_value(c.parser, "python", "python_path")
        source_file == PathOf(input_file)
        python_exe  == PathOf(python_path)
        temp == ExcludeVenv(GlobQml(Parent(source_file)), python_exe, source_file)
        check == QmlCountCheck(temp)
    IN  IF ~(Truthy(input_file) /\ Truthy(python_path)) THEN c
        ELSE IF Len(c.qml_files) # 0
        THEN [c EXCEPT !.raised = [type |-> "TypeError", msg |-> <<>>]]
        ELSE IF check = "error"
        THEN [c EXCEPT !.globbed = TRUE, !.raised = RuntimeError(TooManyQmlMsg)]
        ELSE [c EXCEPT !.globbed = TRUE, !.warned = (check = "warning"),
                       !.qml_files = @ \o temp]

\* lines 230-233: the asset files of the descriptor and of the descriptors it
\* references
ProjectQmlFiles(c) ==
    LET subs == c.project_data.sub_projects_files
    IN  [c EXCEPT !.qml_files =
            c.project_data.qml_files
                \o Concat([i \in 1..Len(subs) |-> ProjectData(subs[i]).qml_files])]

\* lines 274-281: the asset files are stored relative to the project directory
StoreQmlFiles(c) ==
    IF Raised(c) \/ Len(c.qml_files) = 0 THEN c
    ELSE IF \E i \in 1..Len(c.qml_files) :
                ~CanRelativeTo(Absolute(c.qml_files[i]), c.project_dir)
    THEN [c EXCEPT !.raised = ValueError]
    ELSE [c EXCEPT !.parser = set_value(@, "qt", "qml_files",
            JoinComma([i \in 1..Len(c.qml_files) |->
                PathStr(RelativeTo(Absolute(c.qml_files[i]), c.project_dir))]))]

\* Config._find_and_set_qml_files
find_and_set_qml_files(c) ==
    StoreQmlFiles(IF c.project_data.found THEN ProjectQmlFiles(c) ELSE GlobQmlFiles(c))

\* lines 111-116: self.qml_files
SetQmlFiles(c) ==
    LET config_qml_files == get_value(c.parser, "qt", "qml_files")
        names == SplitComma(config_qml_files)
    IN  IF Raised(c) THEN c
        ELSE IF Truthy(config_qml_files) /\ TruthyPath(c.project_dir) /\ c.existing_config_file
        THEN [c EXCEPT !.qml_files =
                 [i \in 1..Len(names) |-> JoinPath(c.project_dir, PathOf(names[i]))]]
        ELSE find_and_set_qml_files(c)

\* a mutation of _find_and_set_excluded_qml_plugins: the scanner runs and the
\* list is computed also without asset files
find_and_set_excluded_qml_plugins_unguarded(c, modules) ==
    LET excluded == Sorted(EXCLUDED_QML_PLUGINS \ modules)
    IN  [c EXCEPT !.qml_modules = modules, !.scanner_calls = @ + 1,
                  !.excluded_qml_plugins = excluded,
                  !.parser = IF Len(excluded) # 0
                             THEN set_value(@, "qt", "excluded_qml_plugins",
                                            JoinComma(excluded))
                             ELSE @]

\* Config._find_and_set_excluded_qml_plugins; modules is what
\* run_qmlimportscanner returns for self.qml_files
find_and_set_excluded_qml_plugins(c, modules) ==
    IF Len(c.qml_files) = 0 THEN c
    ELSE LET excluded == Sorted(EXCLUDED_QML_PLUGINS \ modules)
         IN  [c EXCEPT !.qml_modules = modules, !.scanner_calls = @ + 1,
                       !.excluded_qml_plugins = excluded,
                       !.parser = IF Len(excluded) # 0
                                  THEN set_value(@, "qt", "excluded_qml_plugins",
                                                 JoinComma(excluded))
                                  ELSE @]

\* a mutation of lines 118-122: a configured list is used whatever
\* existing_config_file says
SetExcludedQmlPluginsConfigured(c, modules) ==
    IF Raised(c) THEN c
    ELSE IF Truthy(get_value(c.parser, "qt", "excluded_qml_plugins"))
    THEN [c EXCEPT !.excluded_qml_plugins =
             SplitComma(get_value(c.parser, "qt", "excluded_qml_plugins"))]
    ELSE find_and_set_excluded_qml_plugins(c, modules)

\* lines 118-122: self.excluded_qml_plugins
SetExcludedQmlPlugins(c, modules) ==
    IF Raised(c) THEN c
    ELSE IF Truthy(get_value(c.parser, "qt", "excluded_qml_plugins")) /\ c.existing_config_file
    THEN [c EXCEPT !.excluded_qml_plugins =
             SplitComma(get_value(c.parser, "qt", "excluded_qml_plugins"))]
    ELSE find_and_set_excluded_qml_plugins(c, modules)

\* line 124: self._generated_files_path
SetGeneratedFilesPath(c) ==
    IF Raised(c) THEN c
    ELSE [c EXCEPT !.generated_files_path = JoinPath(c.project_dir, RelPath(<<"deployment">>))]

\* Config.__init__ up to the asset files (lines 65-116)
ConfigInitFiles(P, source_file, python_exe, existing_config_file) ==
    LET c0 == NewConfig(P, existing_config_file)
        c1 == SetSourceFile(c0, source_file)
        c2 == SetPythonPath(c1, python_exe)
        c3 == SetTitle(c2)
        c4 == SetIcon(c3)
        c5 == SetProjectDir(c4)
        c6 == SetExeDir(c5)
        c7 == SetProjectData(c6)
    IN  SetQmlFiles(c7)

\* Config.__init__ from the excluded plugins on (lines 118-124)
ConfigInitPlugins(c, modules) ==
    SetGeneratedFilesPath(SetExcludedQmlPlugins(c, modules))

---------------------------------------------------------------------------
(* The configuration files and filesystems a run may start from *)

AppKeys(title, project_dir, input_file, exec_directory, project_file, icon) ==
    [title |-> title, project_dir |-> project_dir, input_file |-> input_file,
     exec_directory |-> exec_directory, project_file |-> project_file, icon |-> icon]

QtKeys(qml_files, excluded_qml_plugins) ==
    [qml_files |-> qml_files, excluded_qml_plugins |-> excluded_qml_plugins]

\* default.spec as copied for a new project: every key present, none set
CfgDefault ==
    [app    |-> AppKeys(<<"My App">>, <<>>, <<>>, <<>>, <<>>, <<>>),
     python |-> [python_path |-> <<>>],
     qt     |-> QtKeys(<<>>, <<>>)]

\* the sections without any key
CfgBare == [app |-> <<>>, python |-> <<>>, qt |-> <<>>]

\* a file without the python section, and one without the qt section
CfgNoPython == [app |-> CfgDefault.app, qt |-> CfgDefault.qt]

CfgNoQt == [app |-> CfgDefault.app, python |-> CfgDefault.python]

\* a file without the app section
CfgNoApp == [python |-> CfgDefault.python, qt |-> CfgDefault.qt]

\* the file an earlier run in the project directory left behind
CfgPrevRun ==
    [app    |-> AppKeys(<<"My App">>, <<".">>, <<"main.py">>, <<".">>, <<>>,
                        DEFAULT_APP_ICON),
     python |-> [python_path |-> PathStr(SysPython)],
     qt     |-> QtKeys(<<"main.qml", ",", "ui", "/", "view.qml">>,
                       <<"QtCharts", ",", "QtQuick3D", ",", "QtSensors", ",", "QtTest", ",",
                         "QtWebEngine">>)]

\* a file written by hand: absolute paths, an icon of the project, an
\* interpreter in the project directory, no asset files, plugins in no
\* particular order
CfgByHand ==
    [app    |-> AppKeys(<<"Tetrix">>, PathStr(ProjDir), PathStr(MainPy), PathStr(ProjDir),
                        <<>>, <<"icon.png">>),
     python |-> [python_path |-> PathStr(InTreePython)],
     qt     |-> QtKeys(<<>>, <<"QtTest", ",", "QtCharts">>)]

\* default.spec with the source file and the interpreter filled in by hand
CfgAbsInput ==
    [app    |-> AppKeys(<<"My App">>, <<>>, PathStr(MainPy), <<>>, <<>>, <<>>),
     python |-> [python_path |-> PathStr(SysPython)],
     qt     |-> QtKeys(<<>>, <<>>)]

\* the file an earlier run from another working directory left behind
CfgPrevRunElsewhere ==
    [app    |-> AppKeys(<<"My App">>, PathStr(ProjDir), <<"main.py">>, PathStr(ProjDir),
                        <<>>, DEFAULT_APP_ICON),
     python |-> [python_path |-> PathStr(SysPython)],
     qt     |-> QtKeys(<<>>, <<>>)]

\* a file that names the descriptor
CfgWithProject ==
    [app    |-> AppKeys(<<"My App">>, <<".">>, <<"main.py">>, <<".">>, <<"a.pyproject">>,
                        <<>>),
     python |-> [python_path |-> PathStr(SysPython)],
     qt     |-> QtKeys(<<>>, <<>>)]

NoFile == [exists |-> FALSE, lines |-> {}]

FileChoices ==
    {NoFile} \cup {update_config(P) : P \in {CfgDefault, CfgBare, CfgNoPython, CfgNoQt,
                                               CfgNoApp, CfgPrevRun, CfgByHand, CfgAbsInput,
                                               CfgPrevRunElsewhere, CfgWithProject}}

\* filesystems with few asset files
SmallDisks ==
    { <<>>,
      <<MainQml, ViewQml>>,
      <<MainQml, ViewQml, OtherQml>>,
      <<MainQml>> \o SitePkgQml(1) }

\* filesystems with about QML_FILE_LIMIT asset files
LargeDisks ==
    { <<MainQml>> \o SitePkgQml(QML_FILE_LIMIT - 1),
      <<MainQml>> \o SitePkgQml(QML_FILE_LIMIT),
      <<MainQml>> \o SitePkgQml(QML_FILE_LIMIT) \o <<ViewQml>>,
      <<MainQml>> \o UiQml(QML_FILE_LIMIT),
      <<MainQml>> \o UiQml(QML_FILE_LIMIT) \o SitePkgQml(1) }

ProjChoices == {{}, {APyproject}, {BPyproject}, {APyproject, BPyproject}}

\* what run_qmlimportscanner may return
ScannerReplies ==
    { {},
      {<<"QtQuick">>},
      {<<"QtQuick">>, <<"QtWebEngine">>},
      EXCLUDED_QML_PLUGINS \cup {<<"QtCore">>} }

PythonChoices == {NonePath, SysPython, VenvPython, InTreePython}

\* the attributes of the object, without its parser
ObjOf(c) == [k \in DOMAIN c \ {"parser"} |-> c[k]]

NoCall == [op |-> "none"]

\* nothing has run yet: no resolution, none with asset files, and
\* run_qmlimportscanner's call_count is 0
NoTally == [runs |-> 0, with_assets |-> 0, call_count |-> 0]

\* the tally after the construction that ended in context d
Tallied(d) ==
    [runs        |-> tally.runs + 1,
     with_assets |-> tally.with_assets
                        + (IF ~Raised(d) /\ Len(d.qml_files) > 0 THEN 1 ELSE 0),
     call_count  |-> tally.call_count + d.scanner_calls]

\* setup_python has not been called
NoSetup == [called |-> FALSE]

---------------------------------------------------------------------------
(* A deployment run *)

Init ==
    /\ cwd \in {ProjDir, OtherDir}
    /\ qmlOnDisk \in SmallDisks \cup LargeDisks
    /\ projOnDisk \in ProjChoices
    /\ qmlOnDisk \in LargeDisks => projOnDisk = {}
    /\ file \in FileChoices
    /\ file = update_config(CfgWithProject) => cwd = ProjDir /\ APyproject \in projOnDisk
    /\ pc = "start"
    /\ parser = <<>>
    /\ obj = ObjOf(NewConfig(<<>>, FALSE))
    /\ last = NoCall
    /\ nops = 0
    /\ tally = NoTally
    /\ setup = NoSetup

\* BaseConfig.__init__: parser.read(config_file)
ReadConfigFile(config_file) ==
    IF Absolute(config_file) = SpecPath THEN ReadLines(file) ELSE <<>>

\* Config(config_file, source_file, python_exe, dry_run, existing_config_file)
Construct(op, config_file, source_file, python_exe, existing_config_file) ==
    \E c \in {ConfigInitFiles(ReadConfigFile(config_file), source_file, python_exe,
                               existing_config_file)} :
        \E modules \in ScannerReplies :
            LET d == ConfigInitPlugins(c, modules)
            IN  /\ parser' = d.parser
                /\ obj' = ObjOf(d)
                /\ pc' = IF d.raised = NoError THEN "constructed" ELSE "failed"
                /\ last' = [op |-> op, config_file |-> config_file,
                            source_file |-> source_file, python_exe |-> python_exe]
                /\ tally' = Tallied(d)
                /\ UNCHANGED <<cwd, qmlOnDisk, projOnDisk, file, nops, setup>>

\* lines 38-42 of deploy_util.get_config
ConfigFileFor(config_file, main_file) ==
    IF TruthyPath(main_file) /\ ~TruthyPath(config_file)
    THEN IF Parent(main_file) # cwd
         THEN JoinPath(Parent(main_file), RelPath(<<"pysidedeploy.spec">>))
         ELSE JoinPath(cwd, RelPath(<<"pysidedeploy.spec">>))
    ELSE config_file

\* deploy_util.get_config(python_exe, dry_run, config_file, main_file); its
\* caller passes a source file or a configuration file
GetConfig ==
    /\ pc = "start"
    /\ \E python_exe \in PythonChoices, config_file \in {NonePath, SpecPath},
          main_file \in {NonePath, MainPy} :
          /\ TruthyPath(main_file) \/ TruthyPath(config_file)
          /\ Construct("get_config", ConfigFileFor(config_file, main_file), main_file,
                       python_exe, FALSE)

\* Config(...) constructed with existing_config_file=True
ConfigExisting ==
    /\ pc = "start"
    /\ \E python_exe \in PythonChoices, source_file \in {NonePath, MainPy} :
          Construct("Config", SpecPath, source_file, python_exe, TRUE)

\* a mutation of update_config: the file is opened for appending
UpdateConfigAppending ==
    /\ pc = "constructed"
    /\ nops < MaxOps
    /\ file' = [exists |-> TRUE, lines |-> file.lines \cup WriteLines(parser)]
    /\ last' = [op |-> "update_config"]
    /\ nops' = nops + 1
    /\ UNCHANGED <<cwd, qmlOnDisk, projOnDisk, pc, parser, obj, tally, setup>>

\* BaseConfig.update_config()
UpdateConfig ==
    /\ pc = "constructed"
    /\ nops < MaxOps
    /\ file' = update_config(parser)
    /\ last' = [op |-> "update_config"]
    /\ nops' = nops + 1
    /\ UNCHANGED <<cwd, qmlOnDisk, projOnDisk, pc, parser, obj, tally, setup>>

Next == GetConfig \/ ConfigExisting \/ UpdateConfig

Spec == Init /\ [][Next]_vars

---------------------------------------------------------------------------
(* Consecutive runs of the tool on one project *)

\* a project in the working directory, with or without asset files and
\* descriptor, new or left behind by an earlier run
InitRuns ==
    /\ cwd = ProjDir
    /\ qmlOnDisk \in {<<>>, <<MainQml, ViewQml>>}
    /\ projOnDisk \in {{}, {APyproject}}
    /\ file \in {NoFile, update_config(CfgDefault), update_config(CfgPrevRun)}
    /\ pc = "start"
    /\ parser = <<>>
    /\ obj = ObjOf(NewConfig(<<>>, FALSE))
    /\ last = NoCall
    /\ nops = 0
    /\ tally = NoTally
    /\ setup = NoSetup

\* the process ends and the tool is started again: the object is gone, the
\* file and the scanner's call_count stay
NextRun ==
    /\ pc \in {"constructed", "failed"}
    /\ tally.runs < MaxRuns
    /\ pc' = "start"
    /\ parser' = <<>>
    /\ obj' = ObjOf(NewConfig(<<>>, FALSE))
    /\ last' = NoCall
    /\ nops' = 0
    /\ UNCHANGED <<cwd, qmlOnDisk, projOnDisk, file, tally, setup>>

NextRuns == GetConfig \/ UpdateConfig \/ NextRun

SpecRuns == InitRuns /\ [][NextRuns]_vars

---------------------------------------------------------------------------
(* deploy_util.setup_python *)

\* what the user can type at the prompt
Keys == {"n", "N", "o", "O", "y"}

\* a mutation of str.lower: the characters are left as typed
LowerVerbatim(s) == s

\* str.lower() on the characters of this world
Lower(s) ==
    [i \in 1..Len(s) |-> CASE s[i] = "N" -> "n"
                           [] s[i] = "O" -> "o"
                           [] OTHER -> s[i]]

\* lines 62-64: response.lower() in ["no", "n"]
Declines(response) == Lower(response) \in {<<"n", "o">>, <<"n">>}

\* what PythonExecutable(dry_run=dry_run) constructs
PythonExecutable(dry_run) == [dry_run |-> dry_run]

\* lines 62-69 with the response in hand: sys.exit(0), or the wrapper is
\* created and returned
Proceed(s, response) ==
    IF Declines(response)
    THEN [s EXCEPT !.response = response, !.exit_status = <<0>>]
    ELSE [s EXCEPT !.response = response,
                   !.created = Append(@, PythonExecutable(s.dry_run)),
                   !.returned = <<PythonExecutable(s.dry_run)>>]

\* where the call stands once Proceed has run
AfterProceed(s) == IF s.exit_status # <<>> THEN "exited" ELSE "returned"

\* the process has started; no configuration has been read
InitSetup ==
    /\ cwd = ProjDir
    /\ qmlOnDisk = <<>>
    /\ projOnDisk = {}
    /\ file = NoFile
    /\ pc = "start"
    /\ parser = <<>>
    /\ obj = ObjOf(NewConfig(<<>>, FALSE))
    /\ last = NoCall
    /\ nops = 0
    /\ tally = NoTally
    /\ setup = NoSetup

\* setup_python(dry_run, force, init) in a process for which
\* PythonExecutable.is_venv() gives is_venv: lines 51-61, and the rest of
\* the function unless input() has to wait for the user
SetupPython ==
    /\ pc = "start"
    /\ \E is_venv \in BOOLEAN, force \in BOOLEAN, dry_run \in BOOLEAN, init \in BOOLEAN :
          LET asks == ~is_venv /\ ~force /\ ~dry_run /\ ~init
              s0 == [called |-> TRUE, is_venv |-> is_venv, force |-> force,
                     dry_run |-> dry_run, init |-> init, prompted |-> asks,
                     answered |-> FALSE, line |-> <<>>, response |-> <<"y", "e", "s">>,
                     created |-> <<>>, returned |-> <<>>, exit_status |-> <<>>,
                     raised |-> NoError]
          IN  IF asks
              THEN setup' = s0 /\ pc' = "input"
              ELSE setup' = Proceed(s0, s0.response) /\ pc' = AfterProceed(setup')
    /\ UNCHANGED <<cwd, qmlOnDisk, projOnDisk, file, parser, obj, last, nops, tally>>

\* the user types a character of the answer
TypeKey ==
    /\ pc = "input"
    /\ Len(setup.line) < MaxLine
    /\ \E k \in Keys : setup' = [setup EXCEPT !.line = Append(@, k)]
    /\ UNCHANGED <<cwd, qmlOnDisk, projOnDisk, file, pc, parser, obj, last, nops, tally>>

\* the user ends the line: input() returns it, and lines 62-69 run
Enter ==
    /\ pc = "input"
    /\ setup' = Proceed([setup EXCEPT !.answered = TRUE], setup.line)
    /\ pc' = AfterProceed(setup')
    /\ UNCHANGED <<cwd, qmlOnDisk, projOnDisk, file, parser, obj, last, nops, tally>>

\* standard input ends before a line is read: input() raises EOFError, which
\* nothing catches
EndOfInput ==
    /\ pc = "input"
    /\ setup.line = <<>>
    /\ setup' = [setup EXCEPT !.raised = [type |-> "EOFError", msg |-> <<>>]]
    /\ pc' = "failed"
    /\ UNCHANGED <<cwd, qmlOnDisk, projOnDisk, file, parser, obj, last, nops, tally>>

NextSetup == SetupPython \/ TypeKey \/ Enter \/ EndOfInput

SpecSetup == InitSetup /\ [][NextSetup]_vars

---------------------------------------------------------------------------
(* Calls on a constructed configuration object *)

ApiSections == {"app", "python"}

ApiKeys == {"input_file", "python_path"}

\* new values: empty, plain, with a leading blank, with a percent sign
ApiStrs == {<<>>, <<"main.py">>, <<" ", "main.py">>, <<"50", "%">>}

ApiPaths == {NonePath, MainPy, RelPath(<<>>)}

\* the object as BaseConfig.__init__ leaves it; no value of the files has a
\* blank or a percent sign
InitApi ==
    /\ cwd = ProjDir
    /\ qmlOnDisk = <<>>
    /\ file \in FileChoices
    /\ projOnDisk = IF file = update_config(CfgWithProject) THEN {APyproject} ELSE {}
    /\ pc = "constructed"
    /\ parser = ReadLines(file)
    /\ obj = ObjOf(NewConfig(<<>>, FALSE))
    /\ last = NoCall
    /\ nops = 0
    /\ tally = NoTally
    /\ setup = NoSetup

\* Config.__init__ going on after BaseConfig.__init__ (line 65) has read the
\* file: the object is a Config
ConfigApi ==
    /\ pc = "constructed"
    /\ last = NoCall
    /\ \E python_exe \in {NonePath, SysPython}, source_file \in {NonePath, MainPy} :
          Construct("Config", SpecPath, source_file, python_exe, FALSE)

\* BaseConfig.set_value(section, key, new_value)
SetValue ==
    /\ pc = "constructed"
    /\ nops < MaxOps
    /\ \E section \in ApiSections, key \in ApiKeys, new_value \in ApiStrs :
          LET raises == set_value_raises(parser, section, key, new_value)
          IN  /\ parser' = IF raises THEN parser
                           ELSE set_value(parser, section, key, new_value)
              /\ last' = [op |-> "set_value", section |-> section, key |-> key,
                          value |-> new_value, before |-> parser,
                          raised |-> IF raises THEN ValueError ELSE NoError]
    /\ nops' = nops + 1
    /\ UNCHANGED <<cwd, qmlOnDisk, projOnDisk, file, pc, obj, tally, setup>>

\* BaseConfig.get_value(section, key)
GetValue ==
    /\ pc = "constructed"
    /\ nops < MaxOps
    /\ \E section \in ApiSections, key \in ApiKeys :
          last' = [op |-> "get_value", section |-> section, key |-> key,
                   ret |-> get_value(parser, section, key), before |-> parser,
                   raised |-> NoError]
    /\ nops' = nops + 1
    /\ UNCHANGED <<cwd, qmlOnDisk, projOnDisk, file, pc, parser, obj, tally, setup>>

\* Config.set_or_fetch(config_property_val, config_property_key, config_property_group)
SetOrFetch ==
    /\ pc = "constructed"
    /\ nops < MaxOps
    /\ \E val \in ApiPaths, key \in ApiKeys, group \in ApiSections :
          LET r == set_or_fetch(parser, val, key, group)
          IN  /\ parser' = r.parser
              /\ last' = [op |-> "set_or_fetch", section |-> group, key |-> key,
                          val |-> val, raised |-> r.raised, given |-> r.given,
                          ret_val |-> r.val, ret_str |-> r.str, before |-> parser]
    /\ nops' = nops + 1
    /\ UNCHANGED <<cwd, qmlOnDisk, projOnDisk, file, pc, obj, tally, setup>>

NextApi == ConfigApi \/ SetValue \/ GetValue \/ SetOrFetch \/ UpdateConfig

SpecApi == InitApi /\ [][NextApi]_vars

---------------------------------------------------------------------------
(* Vocabulary of the properties *)

\* the last call constructed the Config object, or failed to
Resolving == last.op \in {"get_config", "Config"}

\* the configuration as the constructor read it; the file is not written
\* before update_config
Before == ReadConfigFile(last.config_file)

\* the resolution ran to the end of the constructor
Completed == Resolving /\ pc = "constructed"

\* what the glob of this resolution found, after the exclusion of the virtual
\* environment
Discovered ==
    LET source_file == PathOf(get_value(parser, "app", "input_file"))
        python_exe  == PathOf(get_value(parser, "python", "python_path"))
    IN  ExcludeVenv(GlobQml(Parent(source_file)), python_exe, source_file)

\* the asset files the descriptor lists, then those of the descriptors it
\* references
DescriptorQmlFiles ==
    LET data == ProjectData(obj.project_data.project_file)
        subs == data.sub_projects_files
    IN  data.qml_files \o Concat([i \in 1..Len(subs) |-> ProjectData(subs[i]).qml_files])

---------------------------------------------------------------------------
(* C1 *)

---------------------------------------------------------------------------
(* C2 *)

\* the configuration file gives key a value
Configured(section, key) == Truthy(get_value(Before, section, key))

\* the constructor left the value of key as the file gave it
Preserved(section, key) == get_value(parser, section, key) = get_value(Before, section, key)

\* the path the configured value of key names
ConfiguredPath(section, key) == PathOf(get_value(Before, section, key))

---------------------------------------------------------------------------
(* C3 *)

\* neither an argument nor the configuration gives the source file
NoSourceFile ==
    ~TruthyPath(last.source_file) /\ ~Truthy(get_value(Before, "app", "input_file"))

\* neither an argument nor the configuration gives the interpreter
NoPythonPath ==
    ~TruthyPath(last.python_exe) /\ ~Truthy(get_value(Before, "python", "python_path"))

\* the configuration when set_or_fetch is called for python_path
BeforePythonPath ==
    IF TruthyPath(last.source_file)
    THEN set_value(Before, "app", "input_file", PathStr(last.source_file))
    ELSE Before

\* the constructor ended with the RuntimeError that names key
AbortedNaming(key) ==
    /\ pc = "failed"
    /\ obj.raised.type = "RuntimeError"
    /\ Contains(obj.raised.msg, key)

\* C3 as claimed: for each of input_file and python_path, when no value is
\* given and the configuration has none, the resolution aborts with a
\* RuntimeError naming that field, and the failing call changed nothing
C3_AsClaimed ==
    Resolving =>
        /\ NoSourceFile => AbortedNaming("input_file") /\ parser = Before
        /\ NoPythonPath => AbortedNaming("python_path") /\ parser = BeforePythonPath

\* C3, amended: the RuntimeError names the first field, in the order
\* input_file, python_path, that has neither a given nor a configured value
\* (key absent, section absent or empty value); the failing set_or_fetch call
\* leaves the configuration as it found it
C3_MissingMandatoryFieldAborts ==
    Resolving =>
        /\ NoSourceFile => AbortedNaming("input_file") /\ parser = Before
        /\ (~NoSourceFile /\ NoPythonPath) =>
               AbortedNaming("python_path") /\ parser = BeforePythonPath

\* the source file was given and stored, the file has no python section and
\* no interpreter was given: the constructor failed naming python_path
C3_Witness ==
    /\ Resolving
    /\ TruthyPath(last.source_file) /\ ~TruthyPath(last.python_exe)
    /\ HasSection(Before, "app") /\ ~HasSection(Before, "python")
    /\ AbortedNaming("python_path")
    /\ parser # Before

---------------------------------------------------------------------------
(* C4 *)

\* the str names target, taken relative to the working directory or to the
\* project directory
Denotes(str, target) ==
    /\ Truthy(str)
    /\ \/ Absolute(PathOf(str)) = target
       \/ JoinPath(obj.project_dir, PathOf(str)) = target

\* the asset files of the object as a configuration value: the paths
\* relative to the project directory, joined by commas
QmlFilesValue ==
    JoinComma([i \in 1..Len(obj.qml_files) |->
                  PathStr(RelativeTo(Absolute(obj.qml_files[i]), obj.project_dir))])

\* every resolved field of the object is in the in-memory configuration
FieldsWritten ==
    /\ Denotes(get_value(parser, "app", "input_file"), obj.source_file)
    /\ PathOf(get_value(parser, "python", "python_path")) = obj.python_path
    /\ Denotes(get_value(parser, "app", "project_dir"), obj.project_dir)
    /\ Denotes(get_value(parser, "app", "exec_directory"), obj.exe_dir)
    /\ obj.project_data.found =>
           Denotes(get_value(parser, "app", "project_file"), obj.project_data.project_file)
    /\ get_value(parser, "qt", "qml_files") = QmlFilesValue
    /\ get_value(parser, "qt", "excluded_qml_plugins") = JoinComma(obj.excluded_qml_plugins)

\* the fields are in the in-memory configuration as far as it has their
\* sections, the two lists only when they are not empty
FieldsWrittenWhereStorable ==
    /\ HasSection(parser, "app") =>
          /\ Denotes(get_value(parser, "app", "input_file"), obj.source_file)
          /\ Denotes(get_value(parser, "app", "project_dir"), obj.project_dir)
          /\ Denotes(get_value(parser, "app", "exec_directory"), obj.exe_dir)
          /\ obj.project_data.found =>
                 Denotes(get_value(parser, "app", "project_file"),
                         obj.project_data.project_file)
    /\ HasSection(parser, "python") =>
          PathOf(get_value(parser, "python", "python_path")) = obj.python_path
    /\ (HasSection(parser, "qt") /\ Len(obj.qml_files) > 0) =>
          get_value(parser, "qt", "qml_files") = QmlFilesValue
    /\ (HasSection(parser, "qt") /\ Len(obj.excluded_qml_plugins) > 0) =>
          get_value(parser, "qt", "excluded_qml_plugins") = JoinComma(obj.excluded_qml_plugins)

\* C4 as claimed: when the constructor has completed, every resolved field is
\* in the in-memory configuration and the configuration file has been flushed,
\* so that its contents equal the in-memory configuration
C4_AsClaimed ==
    Completed => FieldsWritten /\ ReadLines(file) = parser

\* C4, amended: the step that completes the constructor leaves the file as it
\* was and has every resolved field in the in-memory configuration whose
\* section exists there (the asset files and the excluded plugins only when
\* the list is not empty); the file equals the in-memory configuration after
\* update_config
C4_FieldsWrittenFileFlushedByUpdateConfig ==
    /\ [](Completed => FieldsWrittenWhereStorable)
    /\ [][ /\ (last'.op \in {"get_config", "Config"} /\ pc' = "constructed") => file' = file
           /\ last'.op = "update_config" => ReadLines(file') = parser' ]_vars

\* the constructor found the project directory and the asset files, stored
\* them, and update_config has then put them into the file
C4_Witness ==
    /\ last.op = "update_config"
    /\ obj.globbed /\ Len(obj.qml_files) > 0
    /\ Truthy(get_value(ReadLines(file), "qt", "qml_files"))
    /\ get_value(ReadLines(file), "app", "project_dir") = <<".">>
    /\ ReadLines(file) = parser

---------------------------------------------------------------------------
(* C5 *)

\* seq is in strictly ascending order, hence without duplicates
IsAscending(seq) ==
    \A i \in 1..Len(seq) : \A j \in 1..Len(seq) :
        i < j => Rank(seq[i]) # 0 /\ Rank(seq[i]) < Rank(seq[j])

\* the excluded plugins are the catalog minus what the scanner reported, in
\* ascending order
ExcludedAsDiscovered ==
    /\ IsAscending(obj.excluded_qml_plugins)
    /\ Range(obj.excluded_qml_plugins) = EXCLUDED_QML_PLUGINS \ obj.qml_modules

\* C5 as claimed: after a completed resolution the excluded plugins are in
\* ascending order without duplicates and none of them was reported by the
\* scanner, whether discovered or taken from the configuration; when
\* discovered they are the sorted catalog minus the scanner result, and the
\* persisted value is that list joined by commas
C5_AsClaimed ==
    Completed =>
        /\ IsAscending(obj.excluded_qml_plugins)
        /\ Range(obj.excluded_qml_plugins) \cap obj.qml_modules = {}
        /\ obj.scanner_calls > 0 =>
              /\ ExcludedAsDiscovered
              /\ get_value(parser, "qt", "excluded_qml_plugins")
                     = JoinComma(obj.excluded_qml_plugins)

\* C5, amended: a discovered list (the scanner ran) is the catalog minus the
\* scanner result in ascending order; it is persisted joined by commas when it
\* is not empty and the qt section exists, and an empty one leaves the
\* persisted value as it was.  A list taken from the configuration is the
\* configured value split at the commas, in the order of the file, and the
\* scanner has not run.
C5_ExcludedPluginsSortedWhenDiscovered ==
    Completed =>
        /\ obj.scanner_calls > 0 =>
              /\ ExcludedAsDiscovered
              /\ (HasSection(parser, "qt") /\ Len(obj.excluded_qml_plugins) > 0) =>
                    get_value(parser, "qt", "excluded_qml_plugins")
                        = JoinComma(obj.excluded_qml_plugins)
              /\ Len(obj.excluded_qml_plugins) = 0 => Preserved("qt", "excluded_qml_plugins")
        /\ (obj.scanner_calls = 0 /\ Len(obj.excluded_qml_plugins) > 0) =>
              /\ obj.existing_config_file
              /\ obj.excluded_qml_plugins
                     = SplitComma(get_value(Before, "qt", "excluded_qml_plugins"))
              /\ Preserved("qt", "excluded_qml_plugins")
        /\ Range(obj.excluded_qml_plugins) \cap obj.qml_modules = {}

\* the scanner reported QtQuick and QtWebEngine, and the four other plugins
\* of the catalog are excluded and persisted in ascending order
C5_Witness ==
    /\ Completed
    /\ obj.scanner_calls = 1
    /\ obj.qml_modules = {<<"QtQuick">>, <<"QtWebEngine">>}
    /\ obj.excluded_qml_plugins
           = << <<"QtCharts">>, <<"QtQuick3D">>, <<"QtSensors">>, <<"QtTest">> >>
    /\ get_value(parser, "qt", "excluded_qml_plugins")
           = <<"QtCharts", ",", "QtQuick3D", ",", "QtSensors", ",", "QtTest">>

---------------------------------------------------------------------------
(* C6 *)

\* C6 as claimed: a resolution whose asset-file list is empty has an empty
\* excluded-plugin list, writes nothing to qt/excluded_qml_plugins and does
\* not run the scanner; the scanner runs only when the asset-file list is not
\* empty
C6_AsClaimed ==
    Resolving =>
        /\ (pc = "constructed" /\ Len(obj.qml_files) = 0) =>
              /\ Len(obj.excluded_qml_plugins) = 0
              /\ Preserved("qt", "excluded_qml_plugins")
              /\ obj.scanner_calls = 0
        /\ obj.scanner_calls > 0 => Len(obj.qml_files) > 0

\* C6, amended: with an empty asset-file list the scanner does not run and
\* nothing is written to qt/excluded_qml_plugins; the excluded-plugin list is
\* empty unless the object was constructed with existing_config_file=True and
\* the configuration gives the list, which is then taken as configured
C6_NoAssetsNoScanner ==
    Resolving =>
        /\ (pc = "constructed" /\ Len(obj.qml_files) = 0) =>
              /\ obj.scanner_calls = 0
              /\ Preserved("qt", "excluded_qml_plugins")
              /\ IF obj.existing_config_file /\ Configured("qt", "excluded_qml_plugins")
                 THEN obj.excluded_qml_plugins
                          = SplitComma(get_value(Before, "qt", "excluded_qml_plugins"))
                 ELSE Len(obj.excluded_qml_plugins) = 0
        /\ obj.scanner_calls > 0 => Len(obj.qml_files) > 0

\* get_config found no asset file on disk: the list of an earlier run stays
\* in the configuration, the object excludes nothing, the scanner did not run
C6_Witness ==
    /\ last.op = "get_config" /\ pc = "constructed"
    /\ qmlOnDisk = <<>>
    /\ Len(obj.qml_files) = 0
    /\ Configured("qt", "excluded_qml_plugins")
    /\ Len(obj.excluded_qml_plugins) = 0
    /\ obj.scanner_calls = 0

---------------------------------------------------------------------------
(* C7 *)

\* the constructor came to look for a descriptor: the directories are
\* resolved and the configuration names no descriptor
DescriptorLookup ==
    /\ Resolving
    /\ TruthyPath(obj.exe_dir)
    /\ ~Configured("app", "project_file")

\* the descriptor files in the project directory
Matches == GlobPyproject(obj.project_dir)

\* the lookup ended the constructor
LookupAborted == pc = "failed" /\ obj.raised = NoActiveException

\* C7 as claimed: the lookup aborts the resolution exactly when more than one
\* descriptor matches; with none the resolution goes on without descriptor
\* and app/project_file unwritten; with one, that file is the descriptor and
\* its path relative to the project directory is stored in app/project_file
C7_AsClaimed ==
    DescriptorLookup =>
        /\ LookupAborted <=> Cardinality(Matches) > 1
        /\ Matches = {} =>
              /\ ~obj.project_data.found
              /\ Preserved("app", "project_file")
        /\ \A f \in Matches : Matches = {f} =>
              /\ obj.project_data.found /\ obj.project_data.project_file = f
              /\ get_value(parser, "app", "project_file")
                     = PathStr(RelativeTo(f, obj.project_dir))

\* C7, amended: as claimed, but the relative path of the one match is stored
\* in app/project_file only when the configuration has the app section;
\* without it the file is the descriptor and nothing is stored
C7_DescriptorLookup ==
    DescriptorLookup =>
        /\ LookupAborted <=> Cardinality(Matches) > 1
        /\ Matches = {} =>
              /\ ~obj.project_data.found
              /\ Preserved("app", "project_file")
        /\ \A f \in Matches : Matches = {f} =>
              /\ obj.project_data.found /\ obj.project_data.project_file = f
              /\ IF HasSection(Before, "app")
                 THEN get_value(parser, "app", "project_file")
                          = PathStr(RelativeTo(f, obj.project_dir))
                 ELSE ~HasSection(parser, "app")

\* a.pyproject is the one descriptor of the project directory: it was found
\* and stored
C7_Witness ==
    /\ DescriptorLookup
    /\ Matches = {APyproject}
    /\ obj.project_data.found /\ obj.project_data.project_file = APyproject
    /\ get_value(parser, "app", "project_file") = <<"a.pyproject">>

---------------------------------------------------------------------------
(* C8 *)

\* the interpreter's parent-of-parent directory
VenvDir == Parent(Parent(Absolute(obj.python_path)))

\* the paths the persisted qt/qml_files names
PersistedQmlFiles ==
    LET value == get_value(parser, "qt", "qml_files")
        names == IF Truthy(value) THEN SplitComma(value) ELSE <<>>
    IN  {JoinPath(obj.project_dir, PathOf(names[i])) : i \in 1..Len(names)}

\* C8 as claimed: after glob-based discovery with the interpreter's
\* parent-of-parent directory being the directory of the source file, no
\* resolved asset file and no persisted one lies under that directory
C8_AsClaimed ==
    (Completed /\ obj.globbed /\ VenvDir = Parent(obj.source_file)) =>
        /\ \A i \in 1..Len(obj.qml_files) : ~IsUnder(Absolute(obj.qml_files[i]), VenvDir)
        /\ \A f \in PersistedQmlFiles : ~IsUnder(f, VenvDir)

---------------------------------------------------------------------------
(* C9 *)

InSitePackages(f) == Contains(PathStr(f), "site-packages")

\* the files in excess of the threshold are files of site-packages: without
\* them the threshold is kept
ExcessInSitePackages ==
    LET app(f) == ~InSitePackages(f)
    IN  Len(SelectSeq(Discovered, app)) <= QML_FILE_LIMIT

TooManyQmlRaised == pc = "failed" /\ obj.raised = RuntimeError(TooManyQmlMsg)

\* C9 as claimed: glob-based discovery of more than 500 files aborts when the
\* excess files lie in site-packages, and otherwise warns and completes with
\* every discovered file in the list; up to 500 files neither happens
C9_AsClaimed ==
    (Resolving /\ obj.globbed) =>
        IF Len(Discovered) > QML_FILE_LIMIT
        THEN IF ExcessInSitePackages
             THEN TooManyQmlRaised
             ELSE /\ pc = "constructed"
                  /\ obj.warned
                  /\ obj.qml_files = Discovered
        ELSE ~obj.warned /\ ~TooManyQmlRaised

---------------------------------------------------------------------------
(* C10 *)

\* the asset files on disk in the directory of the source file or below it
QmlUnderSourceDir ==
    {qmlOnDisk[i] : i \in {j \in 1..Len(qmlOnDisk) :
                              IsUnder(qmlOnDisk[j], Parent(obj.source_file))}}

\* C10 as claimed: when the asset files are not taken from the configuration,
\* they are those of the descriptor and of the descriptors it references, and
\* no glob runs, if a descriptor was found; otherwise they are the files the
\* recursive glob finds under the directory of the source file.  The case of
\* the virtual-environment exclusion and configurations without the app or
\* python section are left out.
C10_AsClaimed ==
    (/\ Completed
     /\ ~(obj.existing_config_file /\ Configured("qt", "qml_files"))
     /\ HasSection(Before, "app") /\ HasSection(Before, "python")
     /\ VenvDir # Parent(obj.source_file)) =>
        IF obj.project_data.found
        THEN obj.qml_files = DescriptorQmlFiles /\ ~obj.globbed
        ELSE /\ obj.globbed
             /\ {Absolute(obj.qml_files[i]) : i \in 1..Len(obj.qml_files)} = QmlUnderSourceDir

---------------------------------------------------------------------------
(* C11 *)

\* the constructor has resolved the project directory and the output
\* directory
DirectoriesResolved == Resolving /\ TruthyPath(obj.exe_dir)

\* C11: when the configuration gives no app/project_dir, the project
\* directory is the parent directory of the resolved source file; when it gives
\* no app/exec_directory, the output directory is the project directory; a
\* configured value makes the directory the absolute form of that value
C11_DirectoriesDefaultOrConfigured ==
    DirectoriesResolved =>
        /\ obj.project_dir = IF Configured("app", "project_dir")
                             THEN Absolute(ConfiguredPath("app", "project_dir"))
                             ELSE Parent(obj.source_file)
        /\ obj.exe_dir = IF Configured("app", "exec_directory")
                         THEN Absolute(ConfiguredPath("app", "exec_directory"))
                         ELSE obj.project_dir

\* a run in the project directory with neither directory configured: both
\* are the directory of the source file, stored as "."
C11_Witness ==
    /\ Completed
    /\ cwd = ProjDir
    /\ ~Configured("app", "project_dir") /\ ~Configured("app", "exec_directory")
    /\ obj.source_file = MainPy
    /\ obj.project_dir = ProjDir /\ obj.exe_dir = ProjDir
    /\ get_value(parser, "app", "exec_directory") = <<".">>

---------------------------------------------------------------------------
(* C12 *)

\* what get_value(section, key) of a fresh BaseConfig returns once
\* update_config has written the configuration to the file
Reread(section, key) == get_value(ReadLines(update_config(parser)), section, key)

\* C12 as claimed: for every section, key and value v, set_value(section,
\* key, v), then update_config, then get_value(section, key) on a fresh
\* BaseConfig of the same file return v
C12_AsClaimed ==
    last.op = "set_value" =>
        /\ last.raised = NoError
        /\ Reread(last.section, last.key) = last.value

\* C12, amended: the round trip returns v without its leading and trailing
\* blanks when the section exists in the configuration and v has no percent
\* sign; for an absent section set_value stores nothing and the fresh
\* get_value returns None; a v with a percent sign that starts no interpolation
\* makes set_value raise ValueError and leave the configuration as it was
C12_RoundTripInExistingSection ==
    last.op = "set_value" =>
        IF Contains(last.value, "%")
        THEN last.raised = ValueError /\ parser = last.before
        ELSE /\ last.raised = NoError
             /\ Reread(last.section, last.key)
                    = IF HasSection(last.before, last.section) THEN Strip(last.value)
                      ELSE None

\* a value was set for a key the existing section did not have, and comes
\* back from the file as it was given
C12_Witness ==
    /\ last.op = "set_value"
    /\ HasSection(last.before, last.section)
    /\ ~HasOption(last.before, last.section, last.key)
    /\ last.value = <<"main.py">>
    /\ Reread(last.section, last.key) = <<"main.py">>

---------------------------------------------------------------------------
(* C13 *)

\* the last call was made for a (section, key) the configuration did not have
OnAbsent ==
    /\ last.op \in {"get_value", "set_value", "set_or_fetch"}
    /\ ~HasOption(last.before, last.section, last.key)

\* the last call was set_or_fetch without a value and raised the error that
\* names the key
MandatoryMissing ==
    /\ last.op = "set_or_fetch"
    /\ ~TruthyPath(last.val)
    /\ last.raised = RuntimeError(MissingMsg(last.key))

\* the constructor failed in set_or_fetch, for a field neither given nor
\* configured
ConstructorMissing ==
    \/ NoSourceFile /\ obj.raised = RuntimeError(MissingMsg("input_file"))
    \/ NoPythonPath /\ obj.raised = RuntimeError(MissingMsg("python_path"))

\* C13 as claimed: for an absent section or key get_value returns None
\* without raising and leaves the configuration unchanged, set_value does not
\* raise, and the only error is the one of set_or_fetch without a value, also
\* within the constructor
C13_AsClaimed ==
    /\ OnAbsent =>
          /\ last.op = "get_value" =>
                last.raised = NoError /\ last.ret = None /\ parser = last.before
          /\ last.op = "set_value" => last.raised = NoError
          /\ last.raised # NoError => MandatoryMissing
    /\ (last.op = "Config" /\ pc = "failed") => ConstructorMissing

\* C13, amended: as claimed, but set_value raises ValueError, for an absent
\* section or key as for a present one, when the new value has a percent sign
\* that starts no interpolation; otherwise it leaves the configuration
\* unchanged for an absent section and adds the key to an existing one
C13_AbsenceIsRecoverable ==
    /\ OnAbsent =>
          /\ last.op = "get_value" =>
                last.raised = NoError /\ last.ret = None /\ parser = last.before
          /\ last.op = "set_value" =>
                IF Contains(last.value, "%")
                THEN last.raised = ValueError /\ parser = last.before
                ELSE /\ last.raised = NoError
                     /\ IF HasSection(last.before, last.section)
                        THEN get_value(parser, last.section, last.key) = last.value
                        ELSE parser = last.before
          /\ last.op = "set_or_fetch" /\ last.raised # NoError => MandatoryMissing
    /\ (last.op = "Config" /\ pc = "failed") => ConstructorMissing

\* set_value was called for a section the configuration does not have: it
\* raised nothing and changed nothing
C13_Witness ==
    /\ last.op = "set_value"
    /\ ~HasSection(last.before, last.section)
    /\ last.value = <<"main.py">>
    /\ last.raised = NoError
    /\ parser = last.before

---------------------------------------------------------------------------
(* C14 *)

\* the constructor has resolved the icon
IconResolved == Resolving /\ obj.icon # None

\* C14 as claimed: without an app/icon value in the configuration (absent or
\* empty) the icon is the bundled default and the default is written into
\* app/icon; with a value the icon is the resolved absolute path of that value
C14_AsClaimed ==
    IconResolved =>
        IF Configured("app", "icon")
        THEN obj.icon = PathStr(Resolve(ConfiguredPath("app", "icon")))
        ELSE /\ obj.icon = DEFAULT_APP_ICON
             /\ get_value(parser, "app", "icon") = DEFAULT_APP_ICON

\* C14, amended: as claimed, but the default is written into app/icon only
\* when the configuration has the app section; without that section nothing
\* is written.  A configured icon is written back as its resolved path.
C14_IconDefaultOrConfigured ==
    IconResolved =>
        IF Configured("app", "icon")
        THEN /\ obj.icon = PathStr(Resolve(ConfiguredPath("app", "icon")))
             /\ get_value(parser, "app", "icon") = obj.icon
        ELSE /\ obj.icon = DEFAULT_APP_ICON
             /\ IF HasSection(Before, "app")
                THEN get_value(parser, "app", "icon") = DEFAULT_APP_ICON
                ELSE ~HasSection(parser, "app")

\* the sections of the file have no key: the icon is the default, and the
\* key app/icon has been added with it
C14_Witness ==
    /\ Completed
    /\ HasSection(Before, "app") /\ ~HasOption(Before, "app", "icon")
    /\ obj.icon = DEFAULT_APP_ICON
    /\ get_value(parser, "app", "icon") = DEFAULT_APP_ICON

---------------------------------------------------------------------------
(* C15 *)

\* the resolution was made from an explicit source file and completed
FromSourceFile == Completed /\ TruthyPath(last.source_file)

\* the name of the source file, its path relative to its directory
SourceFileName == PathStr(RelativeTo(obj.source_file, Parent(obj.source_file)))

\* C15 as claimed: after a resolution from an explicit source file in the
\* working directory the configuration to be persisted holds the file name in
\* app/input_file, "." in app/project_dir and app/exec_directory, and the
\* asset paths relative to the project directory, joined by commas, in
\* qt/qml_files; when the project directory is not the working directory,
\* app/project_dir and app/exec_directory hold its absolute path
C15_AsClaimed ==
    FromSourceFile =>
        /\ Parent(obj.source_file) = cwd =>
              /\ get_value(parser, "app", "input_file") = SourceFileName
              /\ get_value(parser, "app", "project_dir") = <<".">>
              /\ get_value(parser, "app", "exec_directory") = <<".">>
              /\ get_value(parser, "qt", "qml_files") = QmlFilesValue
        /\ obj.project_dir # cwd =>
              /\ get_value(parser, "app", "project_dir") = PathStr(obj.project_dir)
              /\ get_value(parser, "app", "exec_directory") = PathStr(obj.project_dir)

\* C15, amended: the claim holds for a configuration that has the app
\* section and gives neither directory.  A configured app/project_dir or
\* app/exec_directory keeps its value; with app/project_dir configured,
\* app/input_file holds the source file as it was given.  qt/qml_files holds
\* the relative asset paths when the list is not empty and the qt section
\* exists, and is left as it was when the list is empty.
C15_PersistedPaths ==
    (FromSourceFile /\ HasSection(Before, "app")) =>
        /\ get_value(parser, "app", "input_file")
               = IF Configured("app", "project_dir") THEN PathStr(last.source_file)
                 ELSE SourceFileName
        /\ IF Configured("app", "project_dir") THEN Preserved("app", "project_dir")
           ELSE get_value(parser, "app", "project_dir")
                    = IF Parent(obj.source_file) = cwd THEN <<".">>
                      ELSE PathStr(obj.project_dir)
        /\ IF Configured("app", "exec_directory") THEN Preserved("app", "exec_directory")
           ELSE get_value(parser, "app", "exec_directory")
                    = IF obj.project_dir = cwd THEN <<".">> ELSE PathStr(obj.project_dir)
        /\ IF Len(obj.qml_files) = 0 THEN Preserved("qt", "qml_files")
           ELSE HasSection(parser, "qt") =>
                    get_value(parser, "qt", "qml_files") = QmlFilesValue

\* a new project resolved in its own directory: the file name, "." twice and
\* the two asset files are in the configuration
C15_Witness ==
    /\ FromSourceFile
    /\ cwd = ProjDir
    /\ Before = CfgDefault
    /\ get_value(parser, "app", "input_file") = <<"main.py">>
    /\ get_value(parser, "app", "project_dir") = <<".">>
    /\ get_value(parser, "app", "exec_directory") = <<".">>
    /\ get_value(parser, "qt", "qml_files") = <<"main.qml", ",", "ui", "/", "view.qml">>

---------------------------------------------------------------------------
(* C16 *)

\* the last call was get_config, and it completed with asset files
ResolvedWithAssets ==
    last.op = "get_config" /\ pc = "constructed" /\ Len(obj.qml_files) > 0

\* C16: a resolution through get_config that ends with asset files has
\* invoked the scanner exactly once, whatever the configuration file held
\* before; over consecutive runs the scanner has been invoked as many times
\* as resolutions ended with asset files
C16_OneScanPerResolutionWithAssets ==
    /\ ResolvedWithAssets => obj.scanner_calls = 1
    /\ tally.call_count = tally.with_assets

\* the second run read the asset files and the excluded plugins the first
\* run had written, and invoked the scanner again
C16_Witness ==
    /\ ResolvedWithAssets
    /\ Configured("qt", "qml_files") /\ Configured("qt", "excluded_qml_plugins")
    /\ tally.runs = 2 /\ tally.with_assets = 2 /\ tally.call_count = 2

---------------------------------------------------------------------------
(* C17 *)

\* the options the file f holds, each with its value as written
OptionLines(f) == {l \in f.lines : l.key # ""}

\* the file f holds the configuration P and nothing else: a header for each
\* section of P, a line for each option of P with its value, no other line
HoldsExactly(f, P) ==
    /\ f.exists
    /\ {l.section : l \in f.lines} = DOMAIN P
    /\ \A l \in OptionLines(f) :
          HasOption(P, l.section, l.key) /\ P[l.section][l.key] = l.value
    /\ \A s \in DOMAIN P : \A k \in DOMAIN P[s] :
          Cardinality({l \in OptionLines(f) : l.section = s /\ l.key = k}) = 1

\* this step is a call of update_config
Saving == last'.op = "update_config" /\ nops' = nops + 1

\* C17: a step that is not update_config (construction with its field
\* setters, set_value, get_value, set_or_fetch) leaves the file as it is, and
\* update_config leaves a file that holds the in-memory configuration and
\* nothing of what the file held before
C17_FileChangesOnlyOnSave ==
    [][/\ ~Saving => file' = file
       /\ Saving => HoldsExactly(file', parser')]_vars

\* set_value changed an option in memory and update_config wrote it: the file
\* now holds the new value only, and is none of the files there were before
C17_Witness ==
    /\ last.op = "update_config"
    /\ file \notin FileChoices
    /\ get_value(parser, "app", "input_file") = <<" ", "main.py">>
    /\ {l.value : l \in {m \in file.lines : m.section = "app" /\ m.key = "input_file"}}
           = {<<" ", "main.py">>}

---------------------------------------------------------------------------
(* C18 *)

\* the asset files of the application itself: those on disk in the directory
\* of the source file or below it that are not files of installed packages
OwnQmlFiles == {f \in QmlUnderSourceDir : ~InSitePackages(f)}

\* the resolved asset files as absolute paths
ResolvedQmlFiles == {Absolute(obj.qml_files[i]) : i \in 1..Len(obj.qml_files)}

\* C18 as claimed: after glob-based discovery every asset file of the
\* application itself is in the resolved list, also when the interpreter's
\* parent-of-parent directory is the directory of the source file
C18_AsClaimed ==
    (Completed /\ obj.globbed) => OwnQmlFiles \subseteq ResolvedQmlFiles

---------------------------------------------------------------------------
(* C19 *)

\* setup_python has run to its end: it returned or left through sys.exit
SetupDone == setup.called /\ pc \in {"returned", "exited"}

\* C19: the user is asked exactly when the process is not in a virtual
\* environment and none of force, dry_run, init is set; the process exits with
\* status 0, no wrapper created, exactly when the user was asked and the
\* answer is "no" or "n" in any case of the letters; whenever else the user
\* was not asked or has answered, one wrapper is created, with the dry_run
\* flag of the call, and returned.  Standard input ending without an answer
\* is none of these cases.
C19_PromptExitOrWrapper ==
    /\ setup.called =>
          (setup.prompted <=>
              ~setup.is_venv /\ ~setup.force /\ ~setup.dry_run /\ ~setup.init)
    /\ setup.called /\ ~setup.prompted => pc # "input" /\ ~setup.answered
    /\ SetupDone =>
          LET declined == /\ setup.prompted /\ setup.answered
                          /\ \E a \in {<<"n", "o">>, <<"N", "o">>, <<"n", "O">>,
                                         <<"N", "O">>, <<"n">>, <<"N">>} :
                                 setup.response = a
          IN  /\ (pc = "exited") <=> declined
              /\ pc = "exited" => setup.exit_status = <<0>> /\ setup.created = <<>>
              /\ pc = "returned" =>
                    /\ setup.created = <<[dry_run |-> setup.dry_run]>>
                    /\ setup.returned = setup.created
                    /\ setup.exit_status = <<>>
    /\ setup.called /\ ~SetupDone => setup.created = <<>>

\* asked, the user answered "No": the process has exited with status 0 and
\* no wrapper
C19_Witness ==
    /\ pc = "exited"
    /\ setup.prompted /\ setup.response = <<"N", "o">>
    /\ setup.exit_status = <<0>> /\ setup.created = <<>>

====
